---- MODULE Spec2Model ----
(***************************************************************************)
(* Model of versions/models.py (CleanerVersion): versioned rows of one     *)
(* Versionable model class, the Python objects that hold them, and the     *)
(* operations of VersionManager / VersionedQuerySet / Versionable.         *)
(*                                                                         *)
(* Time is a discrete clock; get_utc_now() reads it.  The clock does not   *)
(* have to advance between two calls (two reads of utcnow() can return     *)
(* the same microsecond).                                                  *)
(*                                                                         *)
(* Python objects: objs[h] is the object behind reference h.  References   *)
(* are the ones create() and clone() return; every row is written through  *)
(* exactly one of them (the single writer per entity stated by the spec),  *)
(* so an object differs from its row only by an at() not yet saved.        *)
(* A call that raises changes nothing: its checks are the action's guard.  *)
(***************************************************************************)
EXTENDS Integers, Sequences, FiniteSets, TLC

\* ---------------------------------------------------------------- bounds
\* The clock runs over 0..MaxTime; at most MaxRows uuids are drawn (one per
\* row); create() is called for at most MaxIdent logical objects.
MaxTime == 2
MaxRows == 3
MaxIdent == 1

\* Python's None / SQL NULL (a datetime column or argument, a missing object).
None == -1

Times == 0..MaxTime

VARIABLES
    db,      \* the table: a set of rows, primary key id
    objs,    \* the Python objects, by reference
    clock,   \* what get_utc_now() returns
    uuids,   \* number of uuid4() values drawn so far
    deleted, \* history: the identities delete() has closed
    cols,    \* the columns a model class adds to a row, by primary key
    ocols,   \* the same attributes of the Python objects, by reference
    calls,   \* the calls of clone() under way, by caller
    through_init, \* the constructor of the through class, see _through_init
    qsets,   \* the query sets a caller holds, by reference
    foreign_key, \* as_of_time / apply_as_of_time of the VersionedForeignKey
    compilers \* the compilations of a joining query under way, by caller

vars == <<db, objs, clock, uuids, deleted>>

\* The query sets kept by callers, and what compiling a query goes through.
queries == <<qsets, foreign_key, compilers>>

\* The attributes of a model class beyond those of Versionable.  The plain
\* model class of Spec has none; the specifications further down give the
\* class an attribute, a foreign key, or a many-to-many field.
ext == <<cols, ocols, calls, through_init, queries>>

\* Two callers work on the table at once under SpecConc; in every other
\* specification a call is one step and no call is ever under way.
Callers == {"a", "b"}
NoCall == [pc |-> "idle", self |-> None, later_version |-> None]

\* VersionedForeignKey.__init__(): self.set_as_of(None, False).
VersionedForeignKey == [as_of_time |-> None, apply_as_of_time |-> FALSE]
NoCompile == [pc |-> "idle", query |-> VersionedForeignKey,
              cond |-> VersionedForeignKey]

\* ------------------------------------------------------------ primitives
get_utc_now == clock

\* uuid.uuid4(): a value never drawn before.
uuid4 == uuids + 1

\* The persisted columns of an object.
Row(o) ==
    [id |-> o.id, identity |-> o.identity,
     version_start_date |-> o.version_start_date,
     version_end_date |-> o.version_end_date,
     version_birth_date |-> o.version_birth_date]

\* Model.save(): UPDATE the row with this primary key, INSERT when there is none.
save(store, o) ==
    {r \in store : r.id # o.id} \cup {Row(o)}

\* ------------------------------------------------- VersionManager.create
\* _create_at(timestamp): id and identity are the same fresh uuid,
\* version_start_date = version_birth_date = timestamp.
_create_at(ident, timestamp) ==
    [id |-> ident, identity |-> ident,
     version_start_date |-> timestamp,
     version_end_date |-> None,
     version_birth_date |-> timestamp,
     as_of |-> None]

Init ==
    /\ db = {}
    /\ objs = <<>>
    /\ clock = 0
    /\ uuids = 0
    /\ deleted = {}
    /\ cols = <<>>
    /\ ocols = <<>>
    /\ calls = [c \in Callers |-> NoCall]
    /\ through_init = None
    /\ qsets = <<>>
    /\ foreign_key = VersionedForeignKey
    /\ compilers = [c \in Callers |-> NoCompile]

Tick ==
    /\ clock < MaxTime
    /\ clock' = clock + 1
    /\ UNCHANGED <<db, objs, uuids, deleted>>

\* VersionManager.create(): _create_at(None), timestamp = get_utc_now().
Create ==
    /\ uuids < MaxRows
    /\ Cardinality({r.identity : r \in db}) < MaxIdent
    /\ LET o == _create_at(uuid4, get_utc_now)
       IN /\ db' = save(db, o)
          /\ objs' = Append(objs, o)
    /\ uuids' = uuids + 1
    /\ UNCHANGED <<clock, deleted>>

\* ------------------------------------------------------ Versionable.clone
\* Mutant: the lower end of the accepted range is not checked.
clone_error_no_lower_bound(self, forced_version_date, now) ==
    IF self.id = None THEN "ValueError"
    ELSE IF self.version_end_date # None THEN "ValueError"
    ELSE IF forced_version_date # None /\ ~(forced_version_date <= now)
         THEN "ValueError"
    ELSE ""

\* The checks clone() makes before it changes anything (ValueError each).
clone_error(self, forced_version_date, now) ==
    IF self.id = None THEN "ValueError"
    ELSE IF self.version_end_date # None THEN "ValueError"
    ELSE IF forced_version_date # None
            /\ ~(self.version_start_date <= forced_version_date
                 /\ forced_version_date <= now)
         THEN "ValueError"
    ELSE ""

\* forced_version_date, or get_utc_now() when it is not given.
clone_date(forced_version_date, now) ==
    IF forced_version_date # None THEN forced_version_date ELSE now

\* later_version = copy.copy(earlier_version), open, starting at the clone date.
later_version(self, forced_version_date) ==
    [self EXCEPT !.version_end_date = None,
                 !.version_start_date = forced_version_date]

\* Mutant: the earlier version is renamed but its version_end_date is not set.
earlier_version_open(self, new_id, forced_version_date) ==
    [self EXCEPT !.id = new_id]

\* Mutant: the earlier version is closed but keeps its surrogate id.
earlier_version_same_id(self, new_id, forced_version_date) ==
    [self EXCEPT !.version_end_date = forced_version_date]

\* Mutant: the fresh uuid is written to identity as well as to id.
earlier_version_new_identity(self, new_id, forced_version_date) ==
    [self EXCEPT !.id = new_id, !.identity = new_id,
                 !.version_end_date = forced_version_date]

\* earlier_version = self, renamed to a fresh uuid and closed at the clone date.
earlier_version(self, new_id, forced_version_date) ==
    [self EXCEPT !.id = new_id,
                 !.version_end_date = forced_version_date]

\* clone(forced_version_date): earlier_version.save(), later_version.save();
\* the returned later_version is a new Python object.  The model class has
\* no many-to-many field, so the clone_relations loops do nothing and the
\* closing later_version.save() rewrites the same row.
Clone(h, forced) ==
    LET self == objs[h]
        date == clone_date(forced, get_utc_now)
        earlier == earlier_version(self, uuid4, date)
        later == later_version(self, date)
    IN /\ clone_error(self, forced, get_utc_now) = ""
       /\ uuids < MaxRows
       /\ db' = save(save(db, earlier), later)
       /\ objs' = Append([objs EXCEPT ![h] = earlier], later)
       /\ uuids' = uuids + 1
       /\ UNCHANGED <<clock, deleted>>

\* ----------------------------------------------------- Versionable.delete
\* Mutant: _delete_at() does not look at version_end_date.
_delete_at_error_none(self) == ""

_delete_at_error(self) ==
    IF self.version_end_date = None THEN "" ELSE "Exception"

\* Mutant: the row is saved without its version_end_date being set.
_delete_at_keeps_open(self, timestamp) == self

_delete_at(self, timestamp) ==
    [self EXCEPT !.version_end_date = timestamp]

\* delete(): _delete_at(get_utc_now()), which saves.
Delete(h) ==
    LET self == objs[h]
        closed == _delete_at(self, get_utc_now)
    IN /\ _delete_at_error(self) = ""
       /\ objs' = [objs EXCEPT ![h] = closed]
       /\ db' = save(db, closed)
       /\ deleted' = deleted \cup {self.identity}
       /\ UNCHANGED <<clock, uuids>>

\* --------------------------------------------------------- Versionable.at
is_current(self) == self.version_end_date = None

\* A timestamp of None stands for an argument that is no datetime.datetime.
at_error(self, timestamp) ==
    IF ~is_current(self) THEN "SuspiciousOperation"
    ELSE IF ~(self.version_birth_date = self.version_start_date)
         THEN "SuspiciousOperation"
    ELSE IF timestamp = None THEN "ValueError"
    ELSE ""

at(self, timestamp) ==
    [self EXCEPT !.version_birth_date = timestamp,
                 !.version_start_date = timestamp]

\* at() changes the object only; nothing is written until a save().
At(h, timestamp) ==
    /\ at_error(objs[h], timestamp) = ""
    /\ objs' = [objs EXCEPT ![h] = at(objs[h], timestamp)]
    /\ UNCHANGED <<db, clock, uuids, deleted>>

\* Model.save() called by the user on an object (after at(), typically).
Save(h) ==
    /\ db' = save(db, objs[h])
    /\ UNCHANGED <<objs, clock, uuids, deleted>>

Refs == 1..Len(objs)

Next ==
    \/ Tick /\ UNCHANGED ext
    \/ Create /\ UNCHANGED ext
    \/ \E h \in Refs, forced \in Times \cup {None} :
          Clone(h, forced) /\ UNCHANGED ext
    \/ \E h \in Refs : Delete(h) /\ UNCHANGED ext
    \/ \E h \in Refs, timestamp \in Times \cup {None} :
          At(h, timestamp) /\ UNCHANGED ext
    \/ \E h \in Refs : Save(h) /\ UNCHANGED ext

Spec == Init /\ [][Next]_vars

\* ================================================================== reads
\* --------------------------------------------------- VersionedQuerySet
\* A query set: the as_of filters added so far (each a query time or None),
\* the time its results are tagged with, and its query's as_of settings.
\* VersionManager.get_queryset(): VersionedQuerySet(model), nothing set.
get_queryset ==
    [filters |-> {}, query_time |-> None,
     as_of_time |-> None, apply_as_of_time |-> FALSE]

\* Mutant: version_end_date__gte in place of version_end_date__gt.
as_of_filter_gte(r, querytime) ==
    IF querytime # None
    THEN /\ (\/ (r.version_end_date # None /\ r.version_end_date >= querytime)
             \/ r.version_end_date = None)
         /\ r.version_start_date <= querytime
    ELSE r.version_end_date = None

\* The Q object add_as_of_filter() builds, as a predicate on a row.
\* A NULL version_end_date never satisfies version_end_date__gt.
as_of_filter(r, querytime) ==
    IF querytime # None
    THEN /\ (\/ (r.version_end_date # None /\ r.version_end_date > querytime)
             \/ r.version_end_date = None)
         /\ r.version_start_date <= querytime
    ELSE r.version_end_date = None

\* add_as_of_filter(querytime): sets query_time when querytime is given,
\* and returns the filtered clone of the query set.
add_as_of_filter(qs, querytime) ==
    [qs EXCEPT !.filters = qs.filters \cup {querytime},
               !.query_time = IF querytime # None THEN querytime
                              ELSE qs.query_time]

\* VersionedQuerySet.as_of(qtime): query.set_as_of(qtime, True), then the filter.
qs_as_of(qs, qtime) ==
    add_as_of_filter([qs EXCEPT !.as_of_time = qtime,
                                !.apply_as_of_time = TRUE], qtime)

\* _set_query_time(item): the fetched object carries the query set's query_time.
_set_query_time(qs, r) ==
    [id |-> r.id, identity |-> r.identity,
     version_start_date |-> r.version_start_date,
     version_end_date |-> r.version_end_date,
     version_birth_date |-> r.version_birth_date,
     as_of |-> qs.query_time]

\* _fetch_all(): the rows that pass every filter, each tagged.
_fetch_all(qs) ==
    {_set_query_time(qs, r) :
        r \in {x \in db : \A t \in qs.filters : as_of_filter(x, t)}}

\* VersionManager.as_of(time): get_queryset().as_of(time).
as_of(time) == qs_as_of(get_queryset, time)

\* ------------------------------------------------------ VersionManager
DoesNotExist == [err |-> "ObjectDoesNotExist", id |-> None]
MultipleObjects == [err |-> "MultipleObjectsReturned", id |-> None]
Returned(id) == [err |-> "", id |-> id]

\* QuerySet.get(): the one match, or the error for none / several.
get(matches) ==
    IF Cardinality(matches) > 1 THEN MultipleObjects
    ELSE IF matches = {} THEN DoesNotExist
    ELSE Returned((CHOOSE r \in matches : TRUE).id)

\* next_version(object)
next_version(object) ==
    IF object.version_end_date = None
    THEN Returned(object.id)
    ELSE get({r \in db : /\ r.identity = object.identity
                         /\ r.version_start_date = object.version_end_date})

\* previous_version(object)
previous_version(object) ==
    IF object.version_birth_date = object.version_start_date
    THEN Returned(object.id)
    ELSE get({r \in db : /\ r.identity = object.identity
                         /\ r.version_end_date = object.version_start_date})

\* QuerySet.first(): the match with the least primary key, or None.
first(matches) ==
    IF matches = {} THEN None
    ELSE (CHOOSE r \in matches : \A x \in matches : r.id <= x.id).id

\* Mutant: the lookup of the current row is left out.
current_version_no_lookup(object) == object.id

\* current_version(object): the object itself when it is current, else the
\* row of its identity among the current ones; None when there is none.
current_version(object) ==
    IF object.version_end_date = None
    THEN object.id
    ELSE first({r \in _fetch_all(as_of(None)) : r.identity = object.identity})

\* The row a returned id names.
RowOf(id) == CHOOSE r \in db : r.id = id

\* ================================================================== claims
Identities == {r.identity : r \in db}
Versions(k) == {r \in db : r.identity = k}
CurrentVersions(k) == {r \in Versions(k) : r.version_end_date = None}

\* valid_at(v, t) as the specification states it.
valid_at(v, t) ==
    /\ v.version_start_date <= t
    /\ (v.version_end_date = None \/ v.version_end_date > t)

\* C1: every identity has at most one persisted version whose
\* version_end_date is absent, and it has none exactly when delete() has
\* closed it.
C1_AtMostOneCurrent ==
    \A k \in Identities :
        /\ Cardinality(CurrentVersions(k)) <= 1
        /\ (CurrentVersions(k) = {} <=> k \in deleted)

\* C1 witness: an identity that was cloned and still has its current version,
\* next to the closed one.
C1_Witness ==
    \E k \in Identities :
        /\ Cardinality(Versions(k)) >= 2
        /\ Cardinality(CurrentVersions(k)) = 1

\* The orderings of the versions of one identity.
Orderings(S) ==
    {f \in [1..Cardinality(S) -> S] :
        \A i, j \in 1..Cardinality(S) : i # j => f[i] # f[j]}

NonOverlapping(k) ==
    \A v, w \in Versions(k) :
        v # w => \A t \in Times : ~(valid_at(v, t) /\ valid_at(w, t))

Contiguous(k) ==
    \E f \in Orderings(Versions(k)) :
        /\ f[1].version_start_date = f[1].version_birth_date
        /\ \A i \in 1..(Cardinality(Versions(k)) - 1) :
              f[i].version_end_date = f[i + 1].version_start_date

\* C2: the intervals of the versions of one identity do not overlap and form
\* a chain: each version_end_date is the next version's version_start_date,
\* and the first version starts at its birth.
C2_ContiguousChain ==
    \A k \in Identities : NonOverlapping(k) /\ Contiguous(k)

\* C3: as_of(T), for every instant T and for T absent, returns at most one
\* version of each identity.
C3_AsOfUnambiguous ==
    \A t \in Times \cup {None} :
        \A k \in Identities :
            Cardinality({o \in _fetch_all(as_of(t)) : o.identity = k}) <= 1

\* C3 witness: a cloned identity of which as_of(T) returns a version at the
\* very instant of the clone.
C3_Witness ==
    \E k \in Identities :
        \E v \in Versions(k) :
            /\ v.version_end_date # None
            /\ v.version_start_date < v.version_end_date
            /\ \E o \in _fetch_all(as_of(v.version_end_date)) : o.identity = k

\* C4: as_of(T) returns exactly the rows valid at T, as_of() exactly the
\* current rows, and every returned object is tagged as_of = T.
C4_AsOfExact ==
    \A t \in Times \cup {None} :
        /\ {Row(o) : o \in _fetch_all(as_of(t))}
              = {r \in db : IF t = None THEN r.version_end_date = None
                            ELSE valid_at(r, t)}
        /\ \A o \in _fetch_all(as_of(t)) : o.as_of = t

\* C4 witness: a closed version that as_of(T) returns for a T inside its
\* interval and that as_of() does not return.
C4_Witness ==
    \E r \in db :
        /\ r.version_end_date # None
        /\ \E t \in Times :
              /\ r.id \in {o.id : o \in _fetch_all(as_of(t))}
              /\ r.id \notin {o.id : o \in _fetch_all(as_of(None))}

\* A step in which clone(forced) on reference h succeeded.
CloneStep(h, forced) == Clone(h, forced)

\* The steps that hand out a new reference: create() and clone().  The
\* formulas below look for a clone step among these only.
NewReference == Len(objs') = Len(objs) + 1

\* The reference clone() returned in the step just taken.
Returned_ref == Len(objs)

\* Every identity has the row whose surrogate id create() assigned, and every
\* other version of the identity is a closed one.
HeadCarriesCreateId ==
    /\ \A r \in db : r.id # r.identity => r.version_end_date # None
    /\ \A r \in db : \E head \in db :
          head.id = r.identity /\ head.identity = r.identity

\* What C5 says of the objects after clone() on reference h, whose surrogate
\* id was pre_id, at date.
C5_Post(h, pre_id, date) ==
    LET earlier == objs[h]
        later == objs[Returned_ref]
    IN /\ later.id = pre_id
       /\ earlier.id # pre_id
       /\ Row(earlier) \in db
       /\ Row(later) \in db
       /\ earlier.version_end_date = date
       /\ later.version_start_date = date
       /\ later.version_end_date = None

\* C5: clone(entity, at) gives the returned later version the surrogate id
\* the entity had, persists the closed earlier version under a fresh id with
\* earlier.version_end_date = at = later.version_start_date and the later
\* version open; so the id create() assigned stays with the newest version.
C5_CloneHandsOverId ==
    [][/\ NewReference =>
          \A h \in Refs, forced \in Times \cup {None} :
             CloneStep(h, forced) =>
                /\ \A pre_id \in {objs[h].id},
                      date \in {IF forced # None THEN forced ELSE clock} :
                         C5_Post(h, pre_id, date)'
                /\ objs'[h].id \notin {r.id : r \in db}
       /\ HeadCarriesCreateId']_vars

\* C5 witness: a closed earlier version under another id than its identity,
\* followed by the version that carries the identity's first id.
C5_Witness ==
    \E e \in db, l \in db :
        /\ e.identity = l.identity
        /\ e.id # e.identity
        /\ l.id = l.identity
        /\ e.version_end_date = l.version_start_date
        /\ l.version_end_date = None

\* As many surrogate ids as rows, and as many as objects.
UniqueIds ==
    /\ Cardinality({r.id : r \in db}) = Cardinality(db)
    /\ Cardinality({objs[h].id : h \in Refs}) = Len(objs)

\* C6: no two version rows share a surrogate id, the id clone() gives the
\* earlier version was never used before, and clone() leaves the identity of
\* the earlier and of the later version as it was.
C6_IdsNeverReused ==
    [][/\ UniqueIds'
       /\ NewReference =>
          \A h \in Refs, forced \in Times \cup {None} :
             CloneStep(h, forced) =>
                /\ objs'[h].id \notin {r.id : r \in db}
                /\ objs'[h].identity = objs[h].identity
                /\ objs'[Len(objs')].identity = objs[h].identity
                /\ Cardinality(db') = Cardinality(db) + 1]_vars

\* C6 witness: three rows of one identity, each under its own surrogate id.
C6_Witness ==
    \E k \in Identities :
        /\ Cardinality(Versions(k)) = 3
        /\ Cardinality({r.id : r \in Versions(k)}) = 3

\* C7: two persisted versions of one identity have the same
\* version_birth_date.
C7_BirthShared ==
    \A r1, r2 \in db :
        r1.identity = r2.identity
            => r1.version_birth_date = r2.version_birth_date

\* What C8 says after clone() on reference h.
C8_Post(h) ==
    /\ current_version(objs[h]) = current_version(objs[Returned_ref])
    /\ current_version(objs[h]) # None
    /\ CurrentVersions(objs[h].identity) = {RowOf(current_version(objs[h]))}
    /\ objs[h].version_end_date # None

\* C8: after clone(v), current_version of the reference clone was called on
\* and current_version of the returned reference are the same version, the
\* new current version of the identity.
C8_CurrentAfterClone ==
    [][NewReference =>
          \A h \in Refs, forced \in Times \cup {None} :
             CloneStep(h, forced) => C8_Post(h)']_vars

\* C8 witness: a reference that clone() closed, whose current_version is
\* another row than its own.
C8_Witness ==
    \E h \in Refs :
        /\ objs[h].version_end_date # None
        /\ current_version(objs[h]) # None
        /\ current_version(objs[h]) # objs[h].id

\* A version that has a successor among the versions of its identity.
NonTerminal(v) ==
    /\ v.version_end_date # None
    /\ \E w \in Versions(v.identity) :
          w # v /\ w.version_start_date = v.version_end_date

\* C9: previous_version(next_version(v)) is v for a version that is not the
\* last of its chain; next_version of a current version and previous_version
\* of a first version return the version itself.
C9_PrevOfNext ==
    \A v \in db :
        /\ NonTerminal(v) =>
              /\ next_version(v).err = ""
              /\ previous_version(RowOf(next_version(v).id)) = Returned(v.id)
        /\ v.version_end_date = None => next_version(v) = Returned(v.id)
        /\ v.version_start_date = v.version_birth_date
              => previous_version(v) = Returned(v.id)

\* The rows next_version / previous_version look among.
Successors(v) ==
    {r \in db : /\ r.identity = v.identity
                /\ r.version_start_date = v.version_end_date}
Predecessors(v) ==
    {r \in db : /\ r.identity = v.identity
                /\ r.version_end_date = v.version_start_date}

\* The outcome C10 states for a lookup among matches.
C10_Outcome(result, matches) ==
    /\ Cardinality(matches) = 1 => result.err = "" /\ RowOf(result.id) \in matches
    /\ matches = {} => result.err = "ObjectDoesNotExist"
    /\ Cardinality(matches) > 1 => result.err = "MultipleObjectsReturned"

\* C10: next_version of a non-current v returns the unique version of its
\* identity that starts at v.version_end_date, fails with ObjectDoesNotExist
\* when there is none and with MultipleObjectsReturned when there are
\* several; previous_version of a non-first v likewise; and in reachable
\* states neither of them is ever ambiguous.
C10_NextPrevLookup ==
    \A v \in db :
        /\ v.version_end_date # None
              => C10_Outcome(next_version(v), Successors(v))
        /\ v.version_start_date # v.version_birth_date
              => C10_Outcome(previous_version(v), Predecessors(v))
        /\ next_version(v).err # "MultipleObjectsReturned"
        /\ previous_version(v).err # "MultipleObjectsReturned"

\* ------------------------------------------------------------------ C11
\* An object that was never saved: it has no primary key.
Unsaved(o) == [o EXCEPT !.id = None]

\* at lies outside the half-open range [version_start_date, now).
OutsideHalfOpen(self, forced, now) ==
    forced # None /\ ~(self.version_start_date <= forced /\ forced < now)

\* at lies outside the closed range [version_start_date, now].
OutsideClosed(self, forced, now) ==
    forced # None /\ ~(self.version_start_date <= forced /\ forced <= now)

\* C11 as stated: clone(entity, at) is rejected when the entity has no
\* primary key, is not current, or at is outside [version_start_date, now);
\* at = now is rejected.
C11_RejectsHalfOpen ==
    \A h \in Refs, forced \in Times \cup {None} :
        /\ clone_error(Unsaved(objs[h]), forced, get_utc_now) # ""
        /\ (\/ objs[h].version_end_date # None
            \/ OutsideHalfOpen(objs[h], forced, get_utc_now))
              => clone_error(objs[h], forced, get_utc_now) # ""

\* C11: clone(entity, at) is rejected with ValueError, and is no step (store
\* and entity stay as they are), whenever the entity has no primary key, is
\* not current, or at is outside the closed range [version_start_date, now];
\* at < version_start_date and at > now are rejected, at = now on a current
\* entity that has started is accepted.
C11_RejectsClosed ==
    \A h \in Refs, forced \in Times \cup {None} :
        /\ clone_error(Unsaved(objs[h]), forced, get_utc_now) = "ValueError"
        /\ (\/ objs[h].version_end_date # None
            \/ OutsideClosed(objs[h], forced, get_utc_now))
              => /\ clone_error(objs[h], forced, get_utc_now) = "ValueError"
                 /\ ~ENABLED CloneStep(h, forced)
        /\ (/\ forced = get_utc_now
            /\ objs[h].version_end_date = None
            /\ objs[h].version_start_date <= get_utc_now)
              => clone_error(objs[h], forced, get_utc_now) = ""

\* C11 witness: a current entity for which there is an instant before its
\* version_start_date and now is later than its version_start_date, next to
\* a historical entity.
C11_Witness ==
    \E h \in Refs, g \in Refs :
        /\ objs[h].version_end_date = None
        /\ 0 < objs[h].version_start_date
        /\ objs[h].version_start_date < get_utc_now
        /\ objs[g].version_end_date # None

\* ------------------------------------------------------------------ C14
\* The ids of the rows as_of(T) returns.
ReturnedBy(t) == {o.id : o \in _fetch_all(as_of(t))}

\* C14: every persisted version [S, E) is returned by as_of(S) and by
\* as_of(E - 1), the last instant before E, and is not returned by as_of(E).
C14_BoundaryInclusive ==
    \A r \in db :
        /\ r.id \in ReturnedBy(r.version_start_date)
        /\ r.version_end_date # None =>
              /\ r.version_end_date - 1 \in Times
                    => r.id \in ReturnedBy(r.version_end_date - 1)
              /\ r.id \notin ReturnedBy(r.version_end_date)

\* ------------------------------------------------------------------ C15
\* A step in which delete() on reference h succeeded.
DeleteStep(h) == Delete(h)

\* The steps that close an identity: the delete() steps, and only they.
ClosesIdentity == deleted' # deleted

\* The rows as_of(T) returns.
ReturnedRows(t) == {Row(o) : o \in _fetch_all(as_of(t))}

\* What C15 says after delete() at instant now on reference h, which held
\* the version pre of identity k.
C15_Post(h, pre, now) ==
    /\ objs[h].version_end_date = now
    /\ Row(objs[h]) \in db
    /\ \A t \in Times \cup {None} :
          (t = None \/ t >= now)
             => \A r \in ReturnedRows(t) : r.identity # pre.identity

C16_DeleteOnlyCurrent ==
    [][/\ \A h \in Refs :
             objs[h].version_end_date # None =>
                /\ _delete_at_error(objs[h]) = "Exception"
                /\ ~DeleteStep(h)
       /\ ClosesIdentity =>
             \A r \in db : r.version_end_date # None => r \in db']_vars

\* C16 witness: delete() has closed an identity of which another version was
\* closed before, at an earlier instant.
C16_Witness ==
    \E h \in Refs, g \in Refs :
        /\ objs[h].identity \in deleted
        /\ objs[g].identity = objs[h].identity
        /\ objs[h].version_end_date # None
        /\ objs[g].version_end_date # None
        /\ objs[g].version_end_date < objs[h].version_end_date
        /\ Row(objs[g]) \in db

\* ------------------------------------------------------------------ C18
\* An entity that has been cloned: its identity has more than one version.
Cloned(self) == Cardinality(Versions(self.identity)) >= 2

\* C18: at(timestamp) succeeds only on a current, never cloned entity with
\* version_birth_date = version_start_date; on a historical entity and on
\* an entity that has been cloned it raises SuspiciousOperation, on a
\* timestamp that is no datetime ValueError, and a raising call is no step.
C18_RelocateOnlyFresh ==
    \A h \in Refs, timestamp \in Times \cup {None} :
        /\ (objs[h].version_end_date # None \/ Cloned(objs[h]))
              => at_error(objs[h], timestamp) = "SuspiciousOperation"
        /\ at_error(objs[h], timestamp) = ""
              => /\ is_current(objs[h])
                 /\ objs[h].version_birth_date = objs[h].version_start_date
                 /\ ~Cloned(objs[h])
                 /\ at(objs[h], timestamp).version_birth_date = timestamp
                 /\ at(objs[h], timestamp).version_start_date = timestamp
        /\ timestamp = None => at_error(objs[h], timestamp) # ""
        /\ at_error(objs[h], timestamp) # "" => ~ENABLED At(h, timestamp)

\* ============================================== a model class with an attribute
\* The model class has one attribute x beside the fields of Versionable:
\* cols[id] is the column x of the row, ocols[h] the attribute of the object.
\* The values x takes.
Attrs == {1, 2}

\* At most MaxAttrRows rows are written under SpecAttr.
MaxAttrRows == 2

varsAttr == <<db, objs, clock, uuids, deleted, cols, ocols, calls, through_init, queries>>

\* Mutant: the UPDATE has no WHERE clause and writes x to every row.
save_cols_every_row(store, id, value) ==
    [i \in DOMAIN store \cup {id} |-> value]

\* Model.save() writes every field of the object: x goes to the row as well.
save_cols(store, id, value) ==
    [i \in DOMAIN store \cup {id} |-> IF i = id THEN value ELSE store[i]]

TickAttr == Tick /\ UNCHANGED ext

\* objects.create(x=value)
CreateAttr(value) ==
    /\ uuids < MaxAttrRows
    /\ Create
    /\ cols' = save_cols(cols, uuid4, value)
    /\ ocols' = Append(ocols, value)
    /\ UNCHANGED <<calls, through_init, queries>>

\* clone(): copy.copy() hands x to later_version; both objects are saved.
CloneAttr(h, forced) ==
    /\ uuids < MaxAttrRows
    /\ Clone(h, forced)
    /\ cols' = save_cols(save_cols(cols, uuid4, ocols[h]), objs[h].id, ocols[h])
    /\ ocols' = Append(ocols, ocols[h])
    /\ UNCHANGED <<calls, through_init, queries>>

\* obj.x = value, in memory.
SetAttr(h, value) ==
    /\ ocols[h] # value
    /\ ocols' = [ocols EXCEPT ![h] = value]
    /\ UNCHANGED <<vars, cols, calls, through_init, queries>>

\* obj.save()
SaveAttr(h) ==
    /\ Save(h)
    /\ cols' = save_cols(cols, objs[h].id, ocols[h])
    /\ UNCHANGED <<ocols, calls, through_init, queries>>

\* obj.delete(): _delete_at() saves the object.
DeleteAttr(h) ==
    /\ Delete(h)
    /\ cols' = save_cols(cols, objs[h].id, ocols[h])
    /\ UNCHANGED <<ocols, calls, through_init, queries>>

NextAttr ==
    \/ TickAttr
    \/ \E value \in Attrs : CreateAttr(value)
    \/ \E h \in Refs, forced \in Times \cup {None} : CloneAttr(h, forced)
    \/ \E h \in Refs, value \in Attrs : SetAttr(h, value)
    \/ \E h \in Refs : SaveAttr(h)
    \/ \E h \in Refs : DeleteAttr(h)

SpecAttr == Init /\ [][NextAttr]_varsAttr

\* ------------------------------------------------------------------ C17
\* A step in which save() on reference h succeeded.
SaveAttrStep(h) == SaveAttr(h)

\* The steps that write an attribute to the table and nothing else.
WritesAttrOnly == cols' # cols /\ UNCHANGED <<db, objs, ocols>>

\* What as_of(T) returns of identity k: primary key and x of each object.
ReadAttr(t, k) ==
    {[id |-> o.id, x |-> cols[o.id]] :
        o \in {v \in _fetch_all(as_of(t)) : v.identity = k}}

\* The scenario before its last step: the object behind h is the current
\* version clone() returned at T1, e is the only other version, created at
\* T0 < T1 with x = a, and x = b # a is about to be saved on h.
C17_Scenario(h, e, a, b) ==
    /\ objs[h].version_end_date = None
    /\ Row(objs[h]) \in db
    /\ Versions(objs[h].identity) = {e, Row(objs[h])}
    /\ e.version_start_date = e.version_birth_date
    /\ e.version_end_date = objs[h].version_start_date
    /\ e.version_start_date < e.version_end_date
    /\ cols[e.id] = a
    /\ ocols[h] = b
    /\ a # b

\* What C17 says once x = b is saved on the later version l.
C17_Post(l, e, a, b) ==
    /\ \A t \in Times :
          /\ (e.version_start_date <= t /\ t < e.version_end_date)
                => ReadAttr(t, e.identity) = {[id |-> e.id, x |-> a]}
          /\ t >= e.version_end_date
                => ReadAttr(t, e.identity) = {[id |-> l.id, x |-> b]}
    /\ ReadAttr(None, e.identity) = {[id |-> l.id, x |-> b]}
    /\ current_version(l) = l.id
    /\ current_version(e) = l.id
    /\ cols[l.id] = b
    /\ previous_version(RowOf(current_version(e))) = Returned(e.id)
    /\ cols[e.id] = a
    /\ e \in db

\* C17: after create at T0 with x = a, clone at T1 > T0 and save of x = b on
\* the returned version, as_of(T) returns the version with x = a for T in
\* [T0, T1) and the one with x = b for T >= T1 and for T absent,
\* current_version returns the one with x = b, previous_version of it the one
\* with x = a; and a save() of the current version leaves every other row
\* and its x as they were.
C17_CloneOnWrite ==
    [][WritesAttrOnly =>
          \A h \in Refs :
             SaveAttrStep(h) =>
                /\ \A e \in db, a \in Attrs, b \in Attrs :
                      C17_Scenario(h, e, a, b) =>
                         \A l \in {objs[h]} : C17_Post(l, e, a, b)'
                /\ objs[h].version_end_date = None =>
                      \A r \in db :
                         r.id # objs[h].id
                            => r \in db' /\ cols'[r.id] = cols[r.id]]_varsAttr

\* C17 witness: the scenario has run: the closed first version [T0, T1) has
\* x = 1, the current version that starts at T1 has x = 2.
C17_Witness ==
    \E e \in db, l \in db :
        /\ Versions(e.identity) = {e, l}
        /\ e.version_start_date = e.version_birth_date
        /\ e.version_start_date < e.version_end_date
        /\ e.version_end_date = l.version_start_date
        /\ l.version_end_date = None
        /\ cols[e.id] = 1
        /\ cols[l.id] = 2

\* ===================================== model classes with a many-to-many field
\* Source has targets = VersionedManyToManyField(Target); the through model
\* Link is a Versionable with the VersionedForeignKeys source and target.
\* All three tables are in db; cols[id] tells the model class of a row and,
\* for a Link, the primary keys its two foreign keys hold.  Every call works
\* on objects fetched for it, so no Python object outlives a step.

\* Under SpecRel one Source object and one Target object are created, at
\* most MaxRelRows rows are written, and the clock runs over 0..MaxRelTime.
MaxRelRows == 5
MaxRelTime == 1

varsRel == <<db, objs, clock, uuids, deleted, cols, ocols, calls, through_init, queries>>

Entity(model) == [model |-> model, source_id |-> None, target_id |-> None]
Link(source_id, target_id) ==
    [model |-> "Link", source_id |-> source_id, target_id |-> target_id]

\* The rows of one model class.
RowsOf(model) == {r \in db : cols[r.id].model = model}

\* A row as the object a plain query hands out.
Fetched(r) == _set_query_time(get_queryset, r)

\* The current objects of a model class: Model.objects.as_of().
current(model) == {r \in RowsOf(model) : r.version_end_date = None}

TickRel ==
    /\ clock < MaxRelTime
    /\ Tick
    /\ UNCHANGED ext

\* Source.objects.create() / Target.objects.create()
CreateRel(model) ==
    /\ uuids < MaxRelRows
    /\ RowsOf(model) = {}
    /\ db' = save(db, _create_at(uuid4, get_utc_now))
    /\ cols' = save_cols(cols, uuid4, Entity(model))
    /\ uuids' = uuids + 1
    /\ UNCHANGED <<objs, clock, deleted, ocols, calls, through_init, queries>>

\* The timestamps add_at() and remove_at() are called with.
RelTimes == 0..MaxRelTime

\* A call's view of the tables while it runs: the rows, their columns, the
\* uuids drawn, and the exception that ended it ("" for none).
Store == [db |-> db, cols |-> cols, uuids |-> uuids, err |-> ""]

\* post_init_initialize on through(source_id, target_id): id and identity are
\* one fresh uuid, version_start_date and version_birth_date are now.
through(ident, now) == _create_at(ident, now)

\* _through_init, the constructor add_at(timestamp) puts in the place of
\* through.__init__: the original constructor, then both dates overwritten.
_through_init(o, timestamp) ==
    [o EXCEPT !.version_birth_date = timestamp,
              !.version_start_date = timestamp]

\* through.__init__ as it stands, on what the original constructor built:
\* init is None for the original, else the timestamp _through_init holds.
construct(o, init) == IF init = None THEN o ELSE _through_init(o, init)

\* A Link row as the object a query hands out: the model builds every
\* object it returns with through.__init__.
FetchedLink(r) == construct(Fetched(r), through_init)

\* The current links from a source to a target primary key, as _add_items
\* looks them up (values_list() adds the as_of filter for current rows).
current_links(source_id, target_id) ==
    {l \in current("Link") : /\ cols[l.id].source_id = source_id
                             /\ cols[l.id].target_id = target_id}

\* Mutant: the query finds no current link.
values_list_empty(st, source_id) == {}

\* values_list(target): the target keys of the current links of a source.
values_list(st, source_id) ==
    {st.cols[l.id].target_id :
        l \in {r \in st.db : /\ st.cols[r.id].model = "Link"
                             /\ st.cols[r.id].source_id = source_id
                             /\ r.version_end_date = None}}

\* bulk_create of one through object per new id.
RECURSIVE bulk_create(_, _, _, _, _)
bulk_create(st, instance_id, new_ids, now, init) ==
    IF new_ids = {} THEN st
    ELSE LET obj_id == CHOOSE x \in new_ids : \A y \in new_ids : x <= y
             new_id == st.uuids + 1
         IN bulk_create(
               [st EXCEPT !.db = save(st.db, construct(through(new_id, now), init)),
                          !.cols = save_cols(st.cols, new_id,
                                             Link(instance_id, obj_id)),
                          !.uuids = new_id],
               instance_id, new_ids \ {obj_id}, now, init)

\* add(): SuspiciousOperation unless the instance is current.
add_error(instance) ==
    IF ~is_current(instance) THEN "SuspiciousOperation" ELSE ""

\* instance.targets.add(*objs), the objs given as the keys ids: a link is created
\* to every key that has no current link from the instance.  Nothing looks
\* at the version the key names.
add(st, instance, ids, now, init) ==
    IF add_error(instance) # "" THEN [st EXCEPT !.err = add_error(instance)]
    ELSE bulk_create(st, instance.id, ids \ values_list(st, instance.id),
                     now, init)

\* add_at(timestamp, *objs): add() under the constructor _through_init.
add_at(st, instance, timestamp, ids, now) ==
    add(st, instance, ids, now, timestamp)

\* through.__init__ after add_at(timestamp): put back from __init_backup__
\* after add() has returned; when add() raises, the two closing statements
\* are not reached and _through_init stays in place.
add_at_init(st, timestamp, backup) ==
    IF st.err # "" THEN timestamp ELSE backup

\* source.targets.add(target) that creates a link.  A call that raises, or
\* that finds the link there, changes nothing.
AddRel(s, t) ==
    LET st == add(Store, Fetched(s), {t.id}, get_utc_now, through_init)
    IN /\ st.err = ""
       /\ st.uuids # uuids
       /\ st.uuids <= MaxRelRows
       /\ db' = st.db
       /\ cols' = st.cols
       /\ uuids' = st.uuids
       /\ UNCHANGED <<objs, clock, deleted, ocols, calls, through_init, queries>>

\* source.targets.add_at(timestamp, target)
AddAtRel(s, t, timestamp) ==
    LET st == add_at(Store, Fetched(s), timestamp, {t.id}, get_utc_now)
    IN /\ st.uuids <= MaxRelRows
       /\ db' = st.db
       /\ cols' = st.cols
       /\ uuids' = st.uuids
       /\ through_init' = add_at_init(st, timestamp, through_init)
       /\ UNCHANGED <<objs, clock, deleted, ocols, calls, queries>>

\* _remove_items_at(timestamp, ...): the links from the instance to the
\* target that are valid at timestamp.
links_to_remove(instance_id, target_id, timestamp) ==
    {l \in RowsOf("Link") : /\ cols[l.id].source_id = instance_id
                            /\ cols[l.id].target_id = target_id
                            /\ as_of_filter(l, timestamp)}

\* The same for several targets at once.
relations_to_remove(instance_id, old_ids, timestamp) ==
    UNION {links_to_remove(instance_id, t, timestamp) : t \in old_ids}

\* relation._delete_at(timestamp), on the store.
delete_relation(st, relation, timestamp) ==
    IF _delete_at_error(relation) # ""
    THEN [st EXCEPT !.err = _delete_at_error(relation)]
    ELSE [st EXCEPT !.db = save(st.db, _delete_at(relation, timestamp))]

\* for relation in qs: relation._delete_at(timestamp), over the rows in the
\* order the query returned them; an exception ends the loop.
RECURSIVE delete_relations(_, _, _, _)
delete_relations(order, st, timestamp, init) ==
    IF order = <<>> \/ st.err # "" THEN st
    ELSE delete_relations(
            Tail(order),
            delete_relation(st, construct(Fetched(Head(order)), init), timestamp),
            timestamp, init)

\* _remove_items_at(timestamp, ...): timestamp None stands for now.
remove_date(timestamp, now) == IF timestamp = None THEN now ELSE timestamp

\* source.targets.remove(target), which is _remove_items_at(None, ...), that
\* finds a link.  A _delete_at that raises leaves what was saved before it.
RemoveRel(s, t) ==
    LET timestamp == remove_date(None, get_utc_now)
    IN /\ relations_to_remove(s.id, {t.id}, timestamp) # {}
       /\ \E order \in Orderings(relations_to_remove(s.id, {t.id}, timestamp)) :
             db' = delete_relations(order, Store, timestamp, through_init).db
       /\ UNCHANGED <<objs, clock, uuids, deleted, cols, ocols, calls,
                      through_init, queries>>

\* source.targets.remove_at(timestamp, target)
RemoveAtRel(s, t, timestamp) ==
    /\ relations_to_remove(s.id, {t.id}, timestamp) # {}
    /\ \E order \in Orderings(relations_to_remove(s.id, {t.id}, timestamp)) :
          db' = delete_relations(order, Store, timestamp, through_init).db
    /\ UNCHANGED <<objs, clock, uuids, deleted, cols, ocols, calls,
                   through_init, queries>>

\* ---------------------------- VersionedReverseManyRelatedObjectsDescriptor
\* Mutant: everything linked is removed and everything given is added.
get_current_m2m_diff_clear(instance, new_ids) ==
    [being_removed |-> values_list(Store, instance.id),
     being_added |-> new_ids]

\* get_current_m2m_diff(instance, new_objects): (being_removed, being_added)
get_current_m2m_diff(instance, new_ids) ==
    [being_removed |-> values_list(Store, instance.id) \ new_ids,
     being_added |-> new_ids \ values_list(Store, instance.id)]

\* Mutant: __set__ does not look at the instance.
set_error_none(instance) == ""

\* __set__: SuspiciousOperation unless the instance is current.
set_error(instance) ==
    IF ~is_current(instance) THEN "SuspiciousOperation" ELSE ""

\* __set__(instance, value) after its checks: remove_at(timestamp,
\* *being_removed), then add_at(timestamp, *being_added), timestamp being
\* one reading of the clock.  order is the order of the rows to close.
set(order, instance, value, now, init) ==
    LET diff == get_current_m2m_diff(instance, value)
        removed == delete_relations(order, Store, now, init)
    IN IF removed.err # "" THEN removed
       ELSE add_at(removed, instance, now, diff.being_added, now)

\* The rows remove_at() closes for __set__(instance, value).
set_closes(instance, value, now) ==
    relations_to_remove(instance.id,
                        get_current_m2m_diff(instance, value).being_removed,
                        now)

\* source.targets = value, on a current source: a call that raises at its
\* check changes nothing.
SetRel(s, value) ==
    /\ set_error(Fetched(s)) = ""
    /\ \E order \in Orderings(set_closes(Fetched(s), value, get_utc_now)) :
          LET st == set(order, Fetched(s), value, get_utc_now, through_init)
          IN /\ st.uuids <= MaxRelRows
             /\ db' = st.db
             /\ cols' = st.cols
             /\ uuids' = st.uuids
    /\ UNCHANGED <<objs, clock, deleted, ocols, calls, through_init, queries>>

\* delete() of a Source or Target object: its links are not touched.
DeleteRel(r) ==
    /\ _delete_at_error(r) = ""
    /\ db' = save(db, _delete_at(Fetched(r), get_utc_now))
    /\ UNCHANGED <<objs, clock, uuids, deleted, cols, ocols, calls, through_init, queries>>

\* ------------------------------------------------------- clone_relations
\* The foreign key of Link that points to the model class being cloned:
\* source for the many-to-many field of Source, target for the reverse
\* descriptor (many_to_many_related) of Target.
source_field_name(model) == IF model = "Source" THEN "source" ELSE "target"

\* m2m_rels: the links, of any time, whose foreign key holds clone.id.
m2m_rels(clone_id, field) ==
    {l \in RowsOf("Link") :
        IF field = "source" THEN cols[l.id].source_id = clone_id
        ELSE cols[l.id].target_id = clone_id}

\* setattr(rel, source.source_field_name, self)
repoint(c, field, self_id) ==
    IF field = "source" THEN [c EXCEPT !.source_id = self_id]
    ELSE [c EXCEPT !.target_id = self_id]

\* One pass of the loop over m2m_rels, on the store st = [db, cols, uuids,
\* err]: a current rel is cloned at self.version_end_date (which can raise),
\* then rel, the closed link in either case, is pointed to self and saved.
clone_relation(st, rel, self_id, date, field, now) ==
    IF is_current(rel)
    THEN IF clone_error(rel, date, now) # ""
         THEN [st EXCEPT !.err = clone_error(rel, date, now)]
         ELSE LET new_id == st.uuids + 1
                  earlier == earlier_version(rel, new_id, date)
                  later == later_version(rel, date)
              IN [db |-> save(save(st.db, earlier), later),
                  cols |-> save_cols(save_cols(st.cols, rel.id, st.cols[rel.id]),
                                     new_id,
                                     repoint(st.cols[rel.id], field, self_id)),
                  uuids |-> new_id,
                  err |-> ""]
    ELSE [st EXCEPT !.db = save(st.db, rel),
                    !.cols = save_cols(st.cols, rel.id,
                                       repoint(st.cols[rel.id], field, self_id))]

\* The loop, over the rows in the order the query returned them; an
\* exception ends it and leaves what was saved so far.
RECURSIVE clone_relations(_, _, _, _, _, _)
clone_relations(order, st, self_id, date, field, now) ==
    IF order = <<>> \/ st.err # "" THEN st
    ELSE clone_relations(Tail(order),
                         clone_relation(st, FetchedLink(Head(order)), self_id,
                                        date, field, now),
                         self_id, date, field, now)

\* The store after clone(forced) of the current object r, its relations
\* walked in the given order: earlier_version.save(), later_version.save(),
\* then clone_relations.  There is no transaction around them.
clone(r, forced, order, now) ==
    LET self == Fetched(r)
        date == clone_date(forced, now)
        earlier == earlier_version(self, uuids + 1, date)
        later == later_version(self, date)
        saved == [db |-> save(save(db, earlier), later),
                  cols |-> save_cols(cols, uuids + 1, cols[r.id]),
                  uuids |-> uuids + 1,
                  err |-> ""]
    IN clone_relations(order, saved, earlier.id, date,
                       source_field_name(cols[r.id].model), now)

\* clone(forced) on a current Source or Target object; the call may raise
\* inside clone_relations, and what it saved before stays.
CloneRel(r, forced) ==
    /\ clone_error(Fetched(r), forced, get_utc_now) = ""
    /\ \E order \in Orderings(m2m_rels(r.id, source_field_name(cols[r.id].model))) :
          LET st == clone(r, forced, order, get_utc_now)
          IN /\ st.uuids <= MaxRelRows
             /\ db' = st.db
             /\ cols' = st.cols
             /\ uuids' = st.uuids
    /\ UNCHANGED <<objs, clock, deleted, ocols, calls, through_init, queries>>

Entities == RowsOf("Source") \cup RowsOf("Target")

\* The values a collection is set to: target objects, by primary key.
Values == SUBSET {t.id : t \in RowsOf("Target")}

NextRel ==
    \/ TickRel
    \/ \E model \in {"Source", "Target"} : CreateRel(model)
    \/ \E s \in RowsOf("Source"), t \in RowsOf("Target") : AddRel(s, t)
    \/ \E s \in RowsOf("Source"), t \in RowsOf("Target"), timestamp \in RelTimes :
          AddAtRel(s, t, timestamp)
    \/ \E s \in RowsOf("Source"), t \in RowsOf("Target") : RemoveRel(s, t)
    \/ \E s \in RowsOf("Source"), t \in RowsOf("Target"), timestamp \in RelTimes :
          RemoveAtRel(s, t, timestamp)
    \/ \E s \in RowsOf("Source"), value \in Values : SetRel(s, value)
    \/ \E r \in Entities : DeleteRel(r)
    \/ \E r \in Entities, forced \in Times \cup {None} : CloneRel(r, forced)

SpecRel == Init /\ [][NextRel]_varsRel

\* ------------------------------------------------------------------ C12
\* A step in which clone(forced) was called on the current object r.
CloneRelStep(r, forced) == CloneRel(r, forced)

\* clone(forced) on r raises after its own checks have passed: the clone of
\* one of its current links is refused.
clone_raises(r, forced) ==
    /\ clone_error(Fetched(r), forced, get_utc_now) = ""
    /\ \E order \in Orderings(m2m_rels(r.id, source_field_name(cols[r.id].model))) :
          clone(r, forced, order, get_utc_now).err # ""

\* C12: clone is all-or-nothing: a clone that raises after its precondition
\* checks leaves the tables as they were before the call.
C12_CloneAtomic ==
    [][uuids' # uuids =>
          \A r \in Entities, forced \in Times \cup {None} :
             (CloneRelStep(r, forced) /\ clone_raises(r, forced))
                => UNCHANGED <<db, cols>>]_varsRel

\* ------------------------------------------------------------------ C19
\* VersionedReverseSingleRelatedObjectDescriptor.__get__ on an instance with
\* the given as_of whose foreign key to model holds fk: the parent class
\* fetches the row with that primary key (None when the key is None), then
\* the version of its identity is looked up with as_of(instance.as_of).get().
fk_get(instance_as_of, fk, model) ==
    IF fk = None THEN Returned(None)
    ELSE LET current_elt == get({r \in RowsOf(model) : r.id = fk})
         IN IF current_elt.err # "" THEN current_elt
            ELSE get({o \in _fetch_all(as_of(instance_as_of)) :
                        /\ cols[o.id].model = model
                        /\ o.identity = RowOf(current_elt.id).identity})

\* The versions of identity k valid at T, the current one for T absent.
ValidAt(k, t) ==
    {v \in Versions(k) : IF t = None THEN v.version_end_date = None
                         ELSE valid_at(v, t)}

\* What C19 says of a dereference whose key points to identity k.
C19_Outcome(result, k, t) ==
    IF ValidAt(k, t) = {} THEN result = Returned(None)
    ELSE result.err = "" /\ RowOf(result.id) \in ValidAt(k, t)

\* C19: link.target and link.source on a link observed at T return the
\* version of the referenced identity valid at T (the current one for T
\* absent), whatever was cloned since; when there is no reference or no
\* version valid at T the result is None, not an exception.
C19_Dereference ==
    \A t \in Times \cup {None} :
        /\ fk_get(t, None, "Target") = Returned(None)
        /\ \A l \in {o \in _fetch_all(as_of(t)) : cols[o.id].model = "Link"} :
              /\ C19_Outcome(fk_get(l.as_of, cols[l.id].target_id, "Target"),
                             RowOf(cols[l.id].target_id).identity, t)
              /\ C19_Outcome(fk_get(l.as_of, cols[l.id].source_id, "Source"),
                             RowOf(cols[l.id].source_id).identity, t)

\* ------------------------------------------------------------------ C20
\* propagate_query_time(): the as_of state of the query, set on the foreign
\* key of the joined through table right before the query is compiled.
propagate_query_time(qs) ==
    [as_of_time |-> qs.as_of_time, apply_as_of_time |-> qs.apply_as_of_time]

\* get_extra_restriction(): the condition the foreign key adds to the JOIN,
\* on the row r of the through table.
get_extra_restriction(field, r) ==
    IF field.apply_as_of_time
    THEN IF field.as_of_time # None
         THEN /\ r.version_start_date <= field.as_of_time
              /\ (\/ (r.version_end_date # None
                       /\ r.version_end_date > field.as_of_time)
                  \/ r.version_end_date = None)
         ELSE r.version_end_date = None
    ELSE TRUE

\* instance.targets.all(): VersionedManyRelatedManager.get_queryset() is the
\* Target query set joined to Link on target_id = id with source_id =
\* instance.id, then .as_of(instance.as_of).
many_related(instance) ==
    LET qs == qs_as_of(get_queryset, instance.as_of)
        field == propagate_query_time(qs)
    IN {_set_query_time(qs, t) :
          t \in {x \in RowsOf("Target") :
                   /\ \A f \in qs.filters : as_of_filter(x, f)
                   /\ \E l \in RowsOf("Link") :
                         /\ cols[l.id].target_id = x.id
                         /\ cols[l.id].source_id = instance.id
                         /\ get_extra_restriction(field, l)}}

\* A link version between two identities, as row l.
LinkBetween(l, source_identity, target_identity) ==
    /\ RowOf(cols[l.id].source_id).identity = source_identity
    /\ RowOf(cols[l.id].target_id).identity = target_identity

\* The Source objects as_of(T) returns.
ObservedAt(t) == {o \in _fetch_all(as_of(t)) : cols[o.id].model = "Source"}

\* C20: the collection read from a source observed at T is exactly the
\* target versions valid at T to whose identity a link version from the
\* source's identity is valid at T; with T absent, the current targets with
\* a current link.
C20_ManyToManyRead ==
    \A t \in Times \cup {None} :
        \A o \in ObservedAt(t) :
            {Row(x) : x \in many_related(o)}
               = {x \in RowsOf("Target") :
                    /\ x \in ValidAt(x.identity, t)
                    /\ \E l \in RowsOf("Link") :
                          /\ l \in ValidAt(l.identity, t)
                          /\ LinkBetween(l, o.identity, x.identity)}

\* ------------------------------------------------------------------ C21
\* A step in which source.targets.add(target) created a link.
AddRelStep(s, t) == AddRel(s, t)

\* The rows a step has written anew.
Created == {r \in db' : ~(\E x \in db : x.id = r.id)}

\* C21: add() on a source that is not current fails with SuspiciousOperation
\* and creates no link; on a current source every link it creates has
\* version_start_date = now and no version_end_date.
C21_AddOnCurrentOnly ==
    [][\A s \in RowsOf("Source"), t \in RowsOf("Target") :
          /\ ~is_current(s) =>
                /\ add(Store, Fetched(s), {t.id}, get_utc_now, through_init).err
                      = "SuspiciousOperation"
                /\ ~AddRelStep(s, t)
          /\ (is_current(s) /\ AddRelStep(s, t)) =>
                \A r \in Created : /\ r.version_start_date = get_utc_now
                                   /\ r.version_end_date = None]_varsRel

\* ------------------------------------------------------------------ C22
\* A step in which source.targets.add_at(timestamp, target) was called.
AddAtRelStep(s, t, timestamp) == AddAtRel(s, t, timestamp)

\* The target row a link row points to.
TargetOf(l) == RowOf(cols'[l.id].target_id)

\* C22: every link add() or add_at() creates points to a target version
\* that is current at the time of the call.
C22_LinksToCurrentTargets ==
    [][\A s \in RowsOf("Source"), t \in RowsOf("Target") :
          (\/ AddRelStep(s, t)
           \/ \E timestamp \in RelTimes : AddAtRelStep(s, t, timestamp))
             => \A l \in Created : TargetOf(l).version_end_date = None]_varsRel

\* ------------------------------------------------------------------ C23
\* The links the read of instance.targets goes through: the rows of the
\* through table the JOIN of many_related(instance) keeps.
links_read(instance) ==
    LET qs == qs_as_of(get_queryset, instance.as_of)
        field == propagate_query_time(qs)
    IN {l \in RowsOf("Link") :
          /\ cols[l.id].source_id = instance.id
          /\ get_extra_restriction(field, l)
          /\ \E x \in RowsOf("Target") :
                /\ cols[l.id].target_id = x.id
                /\ \A f \in qs.filters : as_of_filter(x, f)}

\* The source and target pairs of the links a call has created.
NewLinks(st) == {st.cols[i] : i \in DOMAIN st.cols \ DOMAIN cols}

\* The link with primary key id is read from the source identity ks as of T
\* exactly when T >= timestamp, for every T at which both the source and
\* the target identity kt have a version.
C23_Post(id, ks, kt, timestamp) ==
    \A T \in Times :
        (ValidAt(ks, T) # {} /\ ValidAt(kt, T) # {}) =>
           ((\E o \in ObservedAt(T) :
                 /\ o.identity = ks
                 /\ \E l \in links_read(o) : l.id = id)
              <=> T >= timestamp)

\* C23: add_at(timestamp, ...) creates the links add() would create, each
\* with version_birth_date = version_start_date = timestamp and no
\* version_end_date, so that the collection read as of T goes through the
\* link for every T >= timestamp and for no T < timestamp.
C23_AddAtBackdates ==
    [][\A s \in RowsOf("Source"), t \in RowsOf("Target"), timestamp \in RelTimes :
          (AddAtRelStep(s, t, timestamp) /\ Created # {}) =>
             /\ NewLinks(add_at(Store, Fetched(s), timestamp, {t.id}, get_utc_now))
                   = NewLinks(add(Store, Fetched(s), {t.id}, get_utc_now, None))
             /\ \A l \in Created :
                   /\ l.version_birth_date = timestamp
                   /\ l.version_start_date = timestamp
                   /\ l.version_end_date = None
                   /\ C23_Post(l.id, s.identity, t.identity, timestamp)']_varsRel

\* ------------------------------------------------------------------ C24
\* Steps in which remove(target) / remove_at(timestamp, target) was called
\* on the collection of a source and found a link.
RemoveRelStep(s, t) == RemoveRel(s, t)
RemoveAtRelStep(s, t, timestamp) == RemoveAtRel(s, t, timestamp)

\* The step has closed at timestamp exactly the rows of qs, changed nothing
\* else and deleted nothing.
ClosedExactly(qs, timestamp) ==
    db' = {r \in db : r \notin qs}
             \cup {[l EXCEPT !.version_end_date = timestamp] : l \in qs}

\* The target identities the collection of the source identity ks holds
\* when read as of T.
ReadIdentities(T, ks) ==
    UNION {{x.identity : x \in many_related(o)} :
              o \in {p \in ObservedAt(T) : p.identity = ks}}

\* The closed links, with the instants of their validity.
ClosedLinks == {l \in RowsOf("Link") : l.version_end_date # None}

\* What was read as of T through a closed link is still read as of T after
\* the step, as long as both ends still have a version valid at T.
HistoryKept ==
    \A l \in ClosedLinks, T \in Times :
        (l.version_start_date <= T /\ T < l.version_end_date) =>
           \A ks \in {RowOf(cols[l.id].source_id).identity},
              kt \in {RowOf(cols[l.id].target_id).identity} :
                 (/\ kt \in ReadIdentities(T, ks)
                  /\ (ValidAt(ks, T) # {} /\ ValidAt(kt, T) # {})')
                    => (kt \in ReadIdentities(T, ks))'

\* C24: remove() and remove_at() delete no link row: they set
\* version_end_date to now (to timestamp) on exactly the links from the
\* source to the target that are valid at that instant and leave every
\* other row as it is; and what the collection held as of T0 while the link
\* was valid it still holds as of T0 after any further operation.
C24_RemoveClosesOnly ==
    [][/\ \A s \in RowsOf("Source"), t \in RowsOf("Target") :
             /\ RemoveRelStep(s, t) =>
                   ClosedExactly(links_to_remove(s.id, t.id, get_utc_now),
                                 get_utc_now)
             /\ \A timestamp \in RelTimes :
                   RemoveAtRelStep(s, t, timestamp) =>
                      ClosedExactly(links_to_remove(s.id, t.id, timestamp),
                                    timestamp)
       /\ HistoryKept]_varsRel

\* ================================================== replacing a collection
\* One Source object and up to MaxTargets Target objects, none of them ever
\* cloned: the collection of the source is added to, removed from and
\* replaced as a whole; delete() makes an object non-current.
MaxTargets == 2

varsSet == <<db, objs, clock, uuids, deleted, cols, ocols, calls, through_init, queries>>

\* How many objects of a model class are created.
MaxObjects(model) == IF model = "Target" THEN MaxTargets ELSE 1

\* Source.objects.create() / Target.objects.create()
CreateSet(model) ==
    /\ uuids < MaxRelRows
    /\ Cardinality(RowsOf(model)) < MaxObjects(model)
    /\ db' = save(db, _create_at(uuid4, get_utc_now))
    /\ cols' = save_cols(cols, uuid4, Entity(model))
    /\ uuids' = uuids + 1
    /\ UNCHANGED <<objs, clock, deleted, ocols, calls, through_init, queries>>

NextSet ==
    \/ TickRel
    \/ \E model \in {"Source", "Target"} : CreateSet(model)
    \/ \E s \in RowsOf("Source"), t \in RowsOf("Target") : AddRel(s, t)
    \/ \E s \in RowsOf("Source"), t \in RowsOf("Target") : RemoveRel(s, t)
    \/ \E s \in RowsOf("Source"), value \in Values : SetRel(s, value)
    \/ \E r \in RowsOf("Source") : DeleteRel(r)

SpecSet == Init /\ [][NextSet]_varsSet

\* ------------------------------------------------------------------ C25
\* A step in which source.targets = value was called on a current source.
SetRelStep(s, value) == SetRel(s, value)

\* The rows of the pre-state the step has changed.
Changed == {r \in db : r \notin db'}

\* The row with the primary key of r after the step.
After(r) == CHOOSE x \in db' : x.id = r.id

\* r is a link from the source key to one of the target keys.
LinkFromTo(c, source_id, target_ids) ==
    /\ c.model = "Link"
    /\ c.source_id = source_id
    /\ c.target_id \in target_ids

\* The targets a source is currently linked to, by primary key.
Linked(s) ==
    {cols[l.id].target_id :
        l \in {x \in current("Link") : cols[x.id].source_id = s.id}}

\* C25: source.targets = value on a current source closes only links from
\* the source to being_removed = linked - desired and creates only links
\* from the source to being_added = desired - linked, one to each, all at
\* one timestamp (every closed link's version_end_date and every created
\* link's version_start_date is the now of the call); every link to a
\* target in both sets, and every other row, stays as it is.
C25_SetAppliesDiff ==
    [][\A s \in RowsOf("Source"), value \in Values :
          SetRelStep(s, value) =>
             LET diff == [being_removed |-> Linked(s) \ value,
                          being_added |-> value \ Linked(s)]
             IN /\ \A r \in Changed :
                      /\ LinkFromTo(cols[r.id], s.id, diff.being_removed)
                      /\ r.version_end_date = None
                      /\ After(r).version_end_date = get_utc_now
                /\ \A r \in Created :
                      /\ LinkFromTo(cols'[r.id], s.id, diff.being_added)
                      /\ r.version_start_date = get_utc_now
                      /\ r.version_end_date = None
                /\ Created # {} =>
                      {cols'[r.id].target_id : r \in Created} = diff.being_added
                /\ \A r \in db :
                      LinkFromTo(cols[r.id], s.id, value \ diff.being_added)
                         => r \in db'
                /\ \A r \in db : cols'[r.id] = cols[r.id]]_varsSet

\* C25 witness: a source with a link closed now and a link to another
\* target created now, as a replacement leaves them.
C25_Witness ==
    \E s \in current("Source"), l \in RowsOf("Link"), n \in current("Link") :
        /\ cols[l.id].source_id = s.id
        /\ cols[n.id].source_id = s.id
        /\ cols[l.id].target_id # cols[n.id].target_id
        /\ l.version_end_date = get_utc_now
        /\ n.version_start_date = get_utc_now
        /\ l.version_start_date < get_utc_now

\* ------------------------------------------------------------------ C26
\* source.targets = value returns and leaves every table as it is.
SetChangesNothing(s, value) ==
    \A order \in Orderings(set_closes(Fetched(s), value, get_utc_now)) :
        LET st == set(order, Fetched(s), value, get_utc_now, through_init)
        IN /\ st.err = ""
           /\ st.db = db
           /\ st.cols = cols
           /\ st.uuids = uuids

\* source.targets = value returns, whatever the order of the rows it closes.
SetReturns(s, value) ==
    \A order \in Orderings(set_closes(Fetched(s), value, get_utc_now)) :
        set(order, Fetched(s), value, get_utc_now, through_init).err = ""

\* C26: replacing the collection of a current source with the set it is
\* linked to creates no link and closes none; and right after a replacement
\* with some set, a second replacement with that set changes nothing.
C26_SetIdempotent ==
    [][\A s \in current("Source") :
          /\ SetChangesNothing(s, Linked(s))
          /\ \A value \in Values :
                (SetRelStep(s, value) /\ SetReturns(s, value))
                   => SetChangesNothing(s, value)']_varsSet

\* C26 witness: a current source linked to one target and not to another,
\* both current: there are sets to replace its collection with, the linked
\* one among them.
C26_Witness ==
    \E s \in current("Source"), t \in current("Target"), u \in current("Target") :
        /\ t.id \in Linked(s)
        /\ u.id \notin Linked(s)
        /\ \E l \in RowsOf("Link") :
              /\ cols[l.id].source_id = s.id
              /\ cols[l.id].target_id = u.id
              /\ l.version_end_date = get_utc_now

\* ------------------------------------------------------------------ C27
\* C27: source.targets = value on a source that is not current raises
\* SuspiciousOperation at its first check: no replacement step is possible,
\* so no link is closed or created.
C27_SetOnCurrentOnly ==
    \A s \in RowsOf("Source") :
        ~is_current(s) =>
           /\ set_error(Fetched(s)) = "SuspiciousOperation"
           /\ \A value \in Values : ~ENABLED SetRelStep(s, value)

\* C27 witness: a source that is not current and still has a current link,
\* which a replacement with the empty set would close.
C27_Witness ==
    \E s \in RowsOf("Source") :
        /\ ~is_current(s)
        /\ Linked(s) # {}
        /\ relations_to_remove(s.id, Linked(s), get_utc_now) # {}

\* ===================================================== cloning with links
\* The same classes with the calls of everyday use only: objects are
\* created, linked and unlinked now, on current objects, deleted and cloned.
\* The constructor of the through class is never replaced.
varsClone == <<db, objs, clock, uuids, deleted, cols, ocols, calls, through_init, queries>>

NextClone ==
    \/ TickRel
    \/ \E model \in {"Source", "Target"} : CreateRel(model)
    \/ \E s \in current("Source"), t \in current("Target") : AddRel(s, t)
    \/ \E s \in current("Source"), t \in current("Target") : RemoveRel(s, t)
    \/ \E r \in Entities : DeleteRel(r)
    \/ \E r \in Entities, forced \in Times \cup {None} : CloneRel(r, forced)

SpecClone == Init /\ [][NextClone]_varsClone

\* ------------------------------------------------------------------ C28
\* The identities at the other end of the links that hold the key id in
\* their foreign key field and are valid at T (current, for T absent).
LinkedAt(id, field, T) ==
    {RowOf(IF field = "source" THEN cols[l.id].target_id
           ELSE cols[l.id].source_id).identity :
        l \in {x \in m2m_rels(id, field) : x \in ValidAt(x.identity, T)}}

\* A step in which clone(forced) on the current object r has returned.
CloneReturnsStep(r, forced) ==
    /\ CloneRelStep(r, forced)
    /\ ~clone_raises(r, forced)

\* After the clone of r at date, the head row is linked, currently and as
\* of every T >= date, to what r was currently linked to (before), and the
\* closed earlier version (key earlier_id) as of every T in
\* [version_start_date, date) to what r was linked to as of T (past[T]).
C28_Post(r, field, earlier_id, date, before, past) ==
    /\ LinkedAt(r.id, field, None) = before
    /\ \A T \in Times :
          /\ T >= date => LinkedAt(r.id, field, T) = before
          /\ (r.version_start_date <= T /\ T < date) =>
                LinkedAt(earlier_id, field, T) = past[T]

\* C28: clone keeps the many-to-many membership on both sides of the
\* relation, after any sequence of clones of sources and targets.
C28_ClonePreservesLinks ==
    [][uuids' # uuids =>
          \A r \in Entities, forced \in Times \cup {None} :
             CloneReturnsStep(r, forced) =>
                \A field \in {source_field_name(cols[r.id].model)},
                   earlier_id \in {uuid4},
                   date \in {clone_date(forced, get_utc_now)} :
                   \A before \in {LinkedAt(r.id, field, None)},
                      past \in {[T \in Times |-> LinkedAt(r.id, field, T)]} :
                         C28_Post(r, field, earlier_id, date, before, past)'
      ]_varsClone

\* ------------------------------------------------------------------ C29
\* The link rows a step has written anew.
CreatedLinks == {r \in Created : cols'[r.id].model = "Link"}

\* What clone(forced) of r, whose closed earlier version gets the key
\* earlier_id, does to the link l of r.
C29_Post(l, field, earlier_id, date) ==
    IF is_current(l)
    THEN /\ After(l).version_end_date = None
         /\ After(l).identity = l.identity
         /\ cols'[l.id] = cols[l.id]
         /\ \E n \in CreatedLinks :
               /\ n.identity = l.identity
               /\ n.version_end_date = date
               /\ cols'[n.id] = repoint(cols[l.id], field, earlier_id)
               /\ \A x \in CreatedLinks : x.identity = l.identity => x = n
    ELSE /\ l \in db'
         /\ cols'[l.id] = repoint(cols[l.id], field, earlier_id)
         /\ \A x \in CreatedLinks : x.identity # l.identity

\* C29: a clone at date clones each current link of the object at date (the
\* closed link version ends at date and points to the closed version of the
\* object, the open one stays with the head) and only repoints each
\* historical link, which gets no new version: one new link row per current
\* link.
C29_CloneRelinks ==
    [][uuids' # uuids =>
          \A r \in Entities, forced \in Times \cup {None} :
             CloneReturnsStep(r, forced) =>
                LET field == source_field_name(cols[r.id].model)
                    rels == m2m_rels(r.id, field)
                IN /\ \A l \in rels :
                         C29_Post(l, field, uuid4, clone_date(forced, get_utc_now))
                   /\ Cardinality(CreatedLinks)
                         = Cardinality({l \in rels : is_current(l)})
      ]_varsClone

\* ------------------------------------------------------------------ C30
\* C30: every persisted row, of an object or of a link, whose
\* version_end_date is set has version_start_date <= version_end_date.
C30_StartBeforeEnd ==
    \A r \in db :
        r.version_end_date # None => r.version_start_date <= r.version_end_date

\* ------------------------------------------------------------------ C31
\* C31: when add_at() has returned or raised, the constructor of the through
\* class is the original one again, and every link a later add() creates has
\* version_start_date = version_birth_date = now.
C31_AddAtConfined ==
    [][\A s \in RowsOf("Source"), t \in RowsOf("Target") :
          /\ \A timestamp \in RelTimes :
                AddAtRelStep(s, t, timestamp) => through_init' = None
          /\ AddRelStep(s, t) =>
                \A r \in Created : /\ r.version_start_date = get_utc_now
                                   /\ r.version_birth_date = get_utc_now]_varsRel

\* ======================================================= concurrent clones
\* Two callers, each holding its own Python object of a row it fetched,
\* call clone() at the same time.  clone() opens no transaction and takes
\* no lock, so each of its save() calls is a step of its own and the steps
\* of the two calls interleave freely; every state in between is one a
\* reader of the table can see.
varsConc == <<db, objs, clock, uuids, deleted, cols, ocols, calls, through_init, queries>>

\* Meta.unique_together = ('id', 'identity'), next to the primary key id:
\* the error an INSERT of o raises.  save() INSERTs only when no row has
\* o's id, so no row can have o's (id, identity) either.
save_error(store, o) ==
    IF /\ ~(\E r \in store : r.id = o.id)
       /\ \E r \in store : r.id = o.id /\ r.identity = o.identity
    THEN "IntegrityError"
    ELSE ""

TickConc == Tick /\ UNCHANGED ext

CreateConc == Create /\ UNCHANGED ext

\* A caller fetches a current row: objects.current, an object of its own.
Fetch(c) ==
    /\ calls[c].pc = "idle"
    /\ \E o \in _fetch_all(as_of(None)) :
          calls' = [calls EXCEPT ![c] =
                       [pc |-> "fetched", self |-> o, later_version |-> None]]
    /\ UNCHANGED <<vars, cols, ocols, through_init, queries>>

\* clone() up to earlier_version.save(): the caller's state after it.
clone_begin(call, forced, new_id, now) ==
    [pc |-> "saved_earlier",
     self |-> earlier_version(call.self, new_id, clone_date(forced, now)),
     later_version |-> later_version(call.self, clone_date(forced, now))]

\* clone(), first part: the checks on self, the copy, the rename of self
\* and earlier_version.save().  The checks read the caller's object, never
\* the table.
CloneBegin(c, forced) ==
    LET call == clone_begin(calls[c], forced, uuid4, get_utc_now)
    IN /\ calls[c].pc = "fetched"
       /\ clone_error(calls[c].self, forced, get_utc_now) = ""
       /\ uuids < MaxRows
       /\ save_error(db, call.self) = ""
       /\ db' = save(db, call.self)
       /\ uuids' = uuids + 1
       /\ calls' = [calls EXCEPT ![c] = call]
       /\ UNCHANGED <<objs, clock, deleted, cols, ocols, through_init, queries>>

\* clone(), second part: the first later_version.save().
CloneSaveLater(c) ==
    /\ calls[c].pc = "saved_earlier"
    /\ save_error(db, calls[c].later_version) = ""
    /\ db' = save(db, calls[c].later_version)
    /\ calls' = [calls EXCEPT ![c].pc = "saved_later"]
    /\ UNCHANGED <<objs, clock, uuids, deleted, cols, ocols, through_init, queries>>

\* clone(), last part: the model class has no many-to-many field, the
\* loops do nothing; later_version.save() again, and the call returns.
CloneReturn(c) ==
    /\ calls[c].pc = "saved_later"
    /\ save_error(db, calls[c].later_version) = ""
    /\ db' = save(db, calls[c].later_version)
    /\ calls' = [calls EXCEPT ![c].pc = "returned"]
    /\ UNCHANGED <<objs, clock, uuids, deleted, cols, ocols, through_init, queries>>

\* The caller drops what clone() returned and is free to fetch again.
Forget(c) ==
    /\ calls[c].pc = "returned"
    /\ calls' = [calls EXCEPT ![c] = NoCall]
    /\ UNCHANGED <<vars, cols, ocols, through_init, queries>>

NextConc ==
    \/ TickConc
    \/ CreateConc
    \/ \E c \in Callers : Fetch(c)
    \/ \E c \in Callers, forced \in Times \cup {None} : CloneBegin(c, forced)
    \/ \E c \in Callers : CloneSaveLater(c)
    \/ \E c \in Callers : CloneReturn(c)
    \/ \E c \in Callers : Forget(c)

SpecConc == Init /\ [][NextConc]_varsConc

CloneBeginStep(c, forced) == CloneBegin(c, forced)

\* The caller's object no longer is what the table holds under its id:
\* another call has rewritten the version since it was fetched.
Stale(c) ==
    /\ calls[c].pc = "fetched"
    /\ Row(calls[c].self) \notin db

\* C13: concurrent clones of one current version serialize.  In every state
\* of every interleaving, no two versions of an identity are valid at the
\* same instant (no reader between the steps of a clone sees two, and no
\* interleaving ends with overlapping intervals or two versions closed from
\* one predecessor); and a caller whose version another clone has rewritten
\* in the meantime cannot clone it: its call fails.
C13_ClonesSerialize ==
    /\ \A k \in Identities : NonOverlapping(k)
    /\ \A c \in Callers :
          Stale(c) => \A forced \in Times \cup {None} :
                          ~ENABLED CloneBeginStep(c, forced)

\* ======================================================= kept query sets
\* A caller keeps query sets and derives others from them with as_of().
\* At most MaxQuerySets query sets are built.
MaxQuerySets == 3

varsQs == <<db, objs, clock, uuids, deleted, cols, ocols, calls, through_init, queries>>

QuerySets == DOMAIN qsets

TickQs == Tick /\ UNCHANGED ext

CreateQs == Create /\ UNCHANGED ext

CloneQs(h) == Clone(h, None) /\ UNCHANGED ext

\* Model.objects.all(): a query set of the manager, kept by the caller.
GetQuerySet ==
    /\ Len(qsets) < MaxQuerySets
    /\ qsets' = Append(qsets, get_queryset)
    /\ UNCHANGED <<vars, cols, ocols, calls, through_init, foreign_key,
                   compilers>>

\* What as_of(qtime) leaves of the query set it is called on:
\* self.query.set_as_of(qtime, True) writes the receiver's query, and
\* add_as_of_filter() assigns self.query_time when qtime is given; the
\* filter itself goes to the clone self.filter() returns.
as_of_receiver(qs, qtime) ==
    [qs EXCEPT !.as_of_time = qtime,
               !.apply_as_of_time = TRUE,
               !.query_time = IF qtime # None THEN qtime ELSE qs.query_time]

\* qs.as_of(qtime) on the kept query set i; the caller keeps the result.
AsOf(i, qtime) ==
    /\ Len(qsets) < MaxQuerySets
    /\ qsets' = Append([qsets EXCEPT ![i] = as_of_receiver(qsets[i], qtime)],
                       qs_as_of(qsets[i], qtime))
    /\ UNCHANGED <<vars, cols, ocols, calls, through_init, foreign_key,
                   compilers>>

NextQs ==
    \/ TickQs
    \/ CreateQs
    \/ \E h \in Refs : CloneQs(h)
    \/ GetQuerySet
    \/ \E i \in QuerySets, qtime \in Times \cup {None} : AsOf(i, qtime)

SpecQs == Init /\ [][NextQs]_varsQs

\* ------------------------------------------------------------------ C32
AsOfStep(i, qtime) == AsOf(i, qtime)

\* C32: as_of(T) leaves the query set it is called on as it was
\* (as_of_time, apply_as_of_time and query_time), and the query set it
\* returns has the receiver's filters and the one for T, and tags what it
\* fetches with T.
C32_AsOfLeavesReceiver ==
    [][\A i \in QuerySets, qtime \in Times \cup {None} :
          AsOfStep(i, qtime) =>
             /\ qsets'[i].as_of_time = qsets[i].as_of_time
             /\ qsets'[i].apply_as_of_time = qsets[i].apply_as_of_time
             /\ qsets'[i].query_time = qsets[i].query_time
             /\ \A derived \in {qsets'[Len(qsets')]} :
                   /\ derived.filters = qsets[i].filters \cup {qtime}
                   /\ \A o \in _fetch_all(derived) : o.as_of = qtime]_varsQs

\* ================================================== compiling a joined query
\* Two callers (threads of one process) evaluate query sets that join over
\* the same VersionedForeignKey.  The field is one object per model class;
\* get_compiler() writes the query's as_of state to it and the SQL
\* generation that follows reads it back in get_extra_restriction().
varsJoin == <<db, objs, clock, uuids, deleted, cols, ocols, calls, through_init, queries>>

\* query.get_compiler() of the query set i: propagate_query_time() calls
\* join_field.set_as_of(self.as_of_time, self.apply_as_of_time).
get_compiler(c, i) ==
    /\ compilers[c].pc = "idle"
    /\ foreign_key' = propagate_query_time(qsets[i])
    /\ compilers' = [compilers EXCEPT ![c] =
                        [pc |-> "propagated",
                         query |-> propagate_query_time(qsets[i]),
                         cond |-> VersionedForeignKey]]
    /\ UNCHANGED <<vars, cols, ocols, calls, through_init, qsets>>

\* compiler.as_sql(): the JOIN ... ON condition is built by
\* get_extra_restriction() from what the field holds at that moment.
as_sql(c) ==
    /\ compilers[c].pc = "propagated"
    /\ compilers' = [compilers EXCEPT ![c].pc = "compiled",
                                      ![c].cond = foreign_key]
    /\ UNCHANGED <<vars, cols, ocols, calls, through_init, qsets, foreign_key>>

\* The caller has its rows and is ready for the next query.
Done(c) ==
    /\ compilers[c].pc = "compiled"
    /\ compilers' = [compilers EXCEPT ![c] = NoCompile]
    /\ UNCHANGED <<vars, cols, ocols, calls, through_init, qsets, foreign_key>>

NextJoin ==
    \/ GetQuerySet
    \/ \E i \in QuerySets, qtime \in Times \cup {None} : AsOf(i, qtime)
    \/ \E c \in Callers, i \in QuerySets : get_compiler(c, i)
    \/ \E c \in Callers : as_sql(c)
    \/ \E c \in Callers : Done(c)

SpecJoin == Init /\ [][NextJoin]_varsJoin

\* ------------------------------------------------------------------ C33
\* The validity intervals a joined row can have.
JoinRows ==
    [version_start_date : Times, version_end_date : Times \cup {None}]

\* C33: the time restriction of a compiled join is the one of the query
\* that was compiled: it admits exactly the rows the query's own as_of_time
\* and apply_as_of_time admit, whatever other query is compiled meanwhile.
C33_JoinUsesOwnTime ==
    \A c \in Callers :
        compilers[c].pc = "compiled" =>
            \A r \in JoinRows :
                get_extra_restriction(compilers[c].cond, r)
                   <=> get_extra_restriction(compilers[c].query, r)

\* ================================================ reverse side of a foreign key
\* Two model classes: Poll, and Choice with poll = VersionedForeignKey(Poll).
\* poll.choice_set is the VersionedRelatedManager of a Poll object.
\* One Poll and at most MaxChoices Choice objects are created.
MaxChoices == 2

varsFk == <<db, objs, clock, uuids, deleted, cols, ocols, calls, through_init, queries>>

Poll == [model |-> "Poll", poll_id |-> None]
Choice(poll_id) == [model |-> "Choice", poll_id |-> poll_id]

\* Poll.objects.create()
CreatePoll ==
    /\ uuids < MaxRelRows
    /\ RowsOf("Poll") = {}
    /\ db' = save(db, _create_at(uuid4, get_utc_now))
    /\ cols' = save_cols(cols, uuid4, Poll)
    /\ uuids' = uuids + 1
    /\ UNCHANGED <<objs, clock, deleted, ocols, calls, through_init, queries>>

\* Choice.objects.create(poll=p): the column poll_id holds p's primary key.
CreateChoice(p) ==
    /\ uuids < MaxRelRows
    /\ Cardinality({r.identity : r \in RowsOf("Choice")}) < MaxChoices
    /\ db' = save(db, _create_at(uuid4, get_utc_now))
    /\ cols' = save_cols(cols, uuid4, Choice(p.id))
    /\ uuids' = uuids + 1
    /\ UNCHANGED <<objs, clock, deleted, ocols, calls, through_init, queries>>

\* VersionedRelatedManager.__init__(instance): the core filter poll__exact
\* is given instance.identity.
core_filters(instance) == instance.identity

\* VersionedRelatedManager.get_queryset(): the manager's query set, and
\* .as_of(instance.as_of) only when instance.as_of is not None.
related_queryset(instance) ==
    IF instance.as_of # None
    THEN qs_as_of(get_queryset, instance.as_of)
    ELSE get_queryset

\* poll.choice_set.all(): the Choice objects the query set fetches under
\* the core filter.
choice_set(instance) ==
    {o \in _fetch_all(related_queryset(instance)) :
        /\ cols[o.id].model = "Choice"
        /\ cols[o.id].poll_id = core_filters(instance)}

NextFk ==
    \/ TickRel
    \/ CreatePoll
    \/ \E p \in current("Poll") : CreateChoice(p)
    \/ \E r \in RowsOf("Poll") \cup RowsOf("Choice") : DeleteRel(r)
    \/ \E r \in RowsOf("Poll") \cup RowsOf("Choice"),
          forced \in Times \cup {None} : CloneRel(r, forced)

SpecFk == Init /\ [][NextFk]_varsFk

\* ------------------------------------------------------------------ C34
\* The Poll objects as_of(T) returns; for T absent they are the current
\* ones with no as_of, as create() and clone() return them.
Polls(t) == {o \in _fetch_all(as_of(t)) : cols[o.id].model = "Poll"}

\* C34: poll.choice_set holds at most one version of each Choice: from a
\* Poll observed at T only versions valid at T, from a Poll with no as_of
\* only current versions.
C34_ReverseForeignKey ==
    \A t \in Times \cup {None} :
        \A o \in Polls(t) :
            /\ \A x, y \in choice_set(o) : x.identity = y.identity => x.id = y.id
            /\ \A x \in choice_set(o) : Row(x) \in ValidAt(x.identity, t)

====
